---- MODULE Spec2Model ----
(***************************************************************************)
(* State-machine model of blackroad-changelog-tracker                      *)
(* (src/changelog_tracker.py): the SQLite tables change_entries and        *)
(* releases, and the ChangelogTracker operations that read and write them. *)
(*                                                                         *)
(* Strings that the code takes apart (version strings) are sequences of    *)
(* one-character strings; opaque strings (project, summary) are TLA+       *)
(* strings.  datetime.utcnow() is a logical clock that advances at every   *)
(* reading; uuid4() is a counter of the identifiers handed out so far.     *)
(*                                                                         *)
(* Every operation opens its own connection, so callers share nothing but  *)
(* the two tables.  inflight holds, for each caller, the local variables   *)
(* of a finalize_release that has read the entries and not yet committed   *)
(* its writes; a caller that runs an operation as a whole leaves it alone. *)
(***************************************************************************)
EXTENDS Integers, Sequences, FiniteSets, TLC

VARIABLES change_entries, releases, clock, uuids, last, inflight

vars == <<change_entries, releases, clock, uuids, last, inflight>>

(***************************************************************************)
(* Bounds of the model.                                                    *)
(***************************************************************************)
MaxEntries == 2
MaxOps == 4
MaxBumpOps == 3
MaxRenderOps == 5
MaxSectionEntries == 3
MaxRows == 7

(***************************************************************************)
(* Program constants.                                                      *)
(***************************************************************************)
TYPE_FEAT == "feat"
TYPE_FIX == "fix"
TYPE_BREAKING == "breaking"
TYPE_PERF == "perf"
TYPE_REFACTOR == "refactor"
TYPE_DOCS == "docs"
TYPE_CHORE == "chore"

CHANGE_TYPES ==
  <<TYPE_FEAT, TYPE_FIX, TYPE_BREAKING, TYPE_PERF, TYPE_REFACTOR, TYPE_DOCS, TYPE_CHORE>>

TYPE_SECTION ==
  [t \in {TYPE_FEAT, TYPE_FIX, TYPE_BREAKING, TYPE_PERF, TYPE_REFACTOR, TYPE_DOCS, TYPE_CHORE} |->
     CASE t = TYPE_FEAT -> "Features"
       [] t = TYPE_FIX -> "Bug Fixes"
       [] t = TYPE_BREAKING -> "Breaking Changes"
       [] t = TYPE_PERF -> "Performance"
       [] t = TYPE_REFACTOR -> "Refactoring"
       [] t = TYPE_DOCS -> "Documentation"
       [] OTHER -> "Chores"]

\* The slice bound of highlights[:5] in finalize_release.
HighlightCap == 5

\* Python's None (pr_number of an entry without a pull request).
None == "None"

(***************************************************************************)
(* Generic sequence helpers.                                               *)
(***************************************************************************)
InList(x, xs) == \E i \in DOMAIN xs : xs[i] = x

Take(xs, n) == IF n >= Len(xs) THEN xs ELSE SubSeq(xs, 1, n)

Drop(xs, n) == IF n >= Len(xs) THEN <<>> ELSE SubSeq(xs, n + 1, Len(xs))

Range(xs) == {xs[i] : i \in DOMAIN xs}

(***************************************************************************)
(* The clock and the identifier generator.                                 *)
(***************************************************************************)
\* datetime.utcnow().isoformat() read when the clock shows c.
utcnow(c) == c + 1

\* str(uuid4()) when n identifiers were handed out before.
uuid4(n) == n + 1

(***************************************************************************)
(* json.dumps / json.loads on a list of strings: the TEXT column of the    *)
(* releases table holds the encoded list.                                  *)
(***************************************************************************)
json_dumps(xs) == [json |-> xs]

json_loads(txt) == txt.json

(***************************************************************************)
(* The record store: the statements the operations execute.                *)
(***************************************************************************)
\* The insert under a uniqueness constraint on (project, version, summary) that
\* replaces the row already there.
InsertEntry_UniqueSummary(tbl, e) ==
  Append(SelectSeq(tbl, LAMBDA r : ~(r.project = e.project /\ r.version = e.version
                                      /\ r.summary = e.summary)),
         [id |-> e.id, project |-> e.project, version |-> e.version,
          type |-> e.type, summary |-> e.summary, details |-> e.details,
          pr_number |-> e.pr_number, author |-> e.author, date |-> e.date,
          is_finalized |-> FALSE])

\* The insert with 1 in the is_finalized column.
InsertEntry_Finalized(tbl, e) ==
  Append(tbl, [id |-> e.id, project |-> e.project, version |-> e.version,
               type |-> e.type, summary |-> e.summary, details |-> e.details,
               pr_number |-> e.pr_number, author |-> e.author, date |-> e.date,
               is_finalized |-> TRUE])

\* INSERT INTO change_entries ... VALUES (..., 0)
InsertEntry(tbl, e) ==
  Append(tbl, [id |-> e.id, project |-> e.project, version |-> e.version,
               type |-> e.type, summary |-> e.summary, details |-> e.details,
               pr_number |-> e.pr_number, author |-> e.author, date |-> e.date,
               is_finalized |-> FALSE])

\* The query without its version condition.
SelectEntries_AnyVersion(tbl, project, version) ==
  SelectSeq(tbl, LAMBDA r : r.project = project)

\* SELECT * FROM change_entries WHERE project=? AND version=?  (rowid order)
SelectEntries(tbl, project, version) ==
  SelectSeq(tbl, LAMBDA r : r.project = project /\ r.version = version)

\* A plain INSERT into a releases table without the UNIQUE constraint.
InsertOrReplaceRelease_Append(tbl, row) == Append(tbl, row)

\* An upsert that keeps the stored row of the key when its timestamp is the later.
InsertOrReplaceRelease_KeepNewest(tbl, row) ==
  IF \E i \in DOMAIN tbl :
       /\ tbl[i].project = row.project /\ tbl[i].version = row.version
       /\ tbl[i].release_date > row.release_date
    THEN tbl
    ELSE Append(SelectSeq(tbl, LAMBDA r : ~(r.id = row.id
                                            \/ (r.project = row.project /\ r.version = row.version))),
                row)

\* INSERT OR REPLACE INTO releases: rows that conflict on the primary key or on
\* UNIQUE(project, version) are deleted, then the row is inserted.
InsertOrReplaceRelease(tbl, row) ==
  Append(SelectSeq(tbl, LAMBDA r : ~(r.id = row.id
                                      \/ (r.project = row.project /\ r.version = row.version))),
         row)

\* The UPDATE without its version condition.
UpdateFinalized_WholeProject(tbl, project, version) ==
  [i \in DOMAIN tbl |->
     IF tbl[i].project = project
       THEN [tbl[i] EXCEPT !.is_finalized = TRUE]
       ELSE tbl[i]]

\* The UPDATE left out of the commit.
UpdateFinalized_NotCommitted(tbl, project, version) == tbl

\* UPDATE change_entries SET is_finalized=1 WHERE project=? AND version=?
UpdateFinalized(tbl, project, version) ==
  [i \in DOMAIN tbl |->
     IF tbl[i].project = project /\ tbl[i].version = version
       THEN [tbl[i] EXCEPT !.is_finalized = TRUE]
       ELSE tbl[i]]

(***************************************************************************)
(* ChangeEntry: the dataclass built by add_change and by from_row.         *)
(***************************************************************************)
ChangeEntry(id, project, version, type, summary, details, pr_number, author, date) ==
  [id |-> id, project |-> project, version |-> version, type |-> type,
   summary |-> summary, details |-> details, pr_number |-> pr_number,
   author |-> author, date |-> date, is_finalized |-> FALSE]

\* ChangeEntry.from_row: a copy of the row's columns.
from_row(row) ==
  [id |-> row.id, project |-> row.project, version |-> row.version,
   type |-> row.type, summary |-> row.summary, details |-> row.details,
   pr_number |-> row.pr_number, author |-> row.author, date |-> row.date,
   is_finalized |-> row.is_finalized]

(***************************************************************************)
(* add_change                                                              *)
(***************************************************************************)
\* add_change without the test of the type.
add_change_Unchecked(project, version, change_type, summary, details, pr_number, author) ==
  LET entry == ChangeEntry(uuid4(uuids), project, version, change_type, summary,
                           details, pr_number, author, utcnow(clock))
  IN  /\ uuids' = uuid4(uuids)
      /\ clock' = utcnow(clock)
      /\ change_entries' = InsertEntry(change_entries, entry)
      /\ last' = [op |-> "add_change", ok |-> TRUE,
                  project |-> project, version |-> version,
                  change_type |-> change_type, summary |-> summary,
                  result |-> entry]
      /\ UNCHANGED releases

add_change(project, version, change_type, summary, details, pr_number, author) ==
  IF ~InList(change_type, CHANGE_TYPES)
    THEN /\ last' = [op |-> "add_change", ok |-> FALSE, error |-> "ValueError",
                     project |-> project, version |-> version,
                     change_type |-> change_type, summary |-> summary]
         /\ UNCHANGED <<change_entries, releases, clock, uuids>>
    ELSE LET entry == ChangeEntry(uuid4(uuids), project, version, change_type, summary,
                                  details, pr_number, author, utcnow(clock))
         IN  /\ uuids' = uuid4(uuids)
             /\ clock' = utcnow(clock)
             /\ change_entries' = InsertEntry(change_entries, entry)
             /\ last' = [op |-> "add_change", ok |-> TRUE,
                         project |-> project, version |-> version,
                         change_type |-> change_type, summary |-> summary,
                         result |-> entry]
             /\ UNCHANGED releases

(***************************************************************************)
(* finalize_release                                                        *)
(***************************************************************************)
\* Highlights without the [:5] slice.
Highlights_NoCap(changes) ==
  LET picked == SelectSeq(changes, LAMBDA e : e.type \in {TYPE_FEAT, TYPE_BREAKING})
  IN  [i \in DOMAIN picked |-> picked[i].summary]

\* [e.summary for e in changes if e.type in (TYPE_FEAT, TYPE_BREAKING)][:5]
Highlights(changes) ==
  LET picked == SelectSeq(changes, LAMBDA e : e.type \in {TYPE_FEAT, TYPE_BREAKING})
  IN  Take([i \in DOMAIN picked |-> picked[i].summary], HighlightCap)

\* finalize_release without the test for an empty read.
finalize_release_Unchecked(project, version) ==
  LET rows == SelectEntries(change_entries, project, version)
      changes == [i \in DOMAIN rows |-> from_row(rows[i])]
      highlights == Highlights(changes)
      release_date == utcnow(clock)
      release_id == uuid4(uuids)
  IN  /\ clock' = release_date
      /\ uuids' = release_id
      /\ releases' = InsertOrReplaceRelease(releases,
                       [id |-> release_id, project |-> project, version |-> version,
                        release_date |-> release_date,
                        highlights |-> json_dumps(highlights)])
      /\ change_entries' = UpdateFinalized(change_entries, project, version)
      /\ last' = [op |-> "finalize_release", ok |-> TRUE,
                  project |-> project, version |-> version,
                  result |-> [project |-> project, version |-> version,
                              date |-> release_date, changes |-> changes,
                              highlights |-> highlights]]

finalize_release(project, version) ==
  LET rows == SelectEntries(change_entries, project, version) IN
  IF rows = <<>>
    THEN /\ last' = [op |-> "finalize_release", ok |-> FALSE, error |-> "ValueError",
                     project |-> project, version |-> version]
         /\ UNCHANGED <<change_entries, releases, clock, uuids>>
    ELSE LET changes == [i \in DOMAIN rows |-> from_row(rows[i])]
             highlights == Highlights(changes)
             release_date == utcnow(clock)
             release_id == uuid4(uuids)
         IN  /\ clock' = release_date
             /\ uuids' = release_id
             /\ releases' = InsertOrReplaceRelease(releases,
                              [id |-> release_id, project |-> project, version |-> version,
                               release_date |-> release_date,
                               highlights |-> json_dumps(highlights)])
             /\ change_entries' = UpdateFinalized(change_entries, project, version)
             /\ last' = [op |-> "finalize_release", ok |-> TRUE,
                         project |-> project, version |-> version,
                         result |-> [project |-> project, version |-> version,
                                     date |-> release_date, changes |-> changes,
                                     highlights |-> highlights]]

(***************************************************************************)
(* finalize_release as concurrent callers see it.  The method opens one    *)
(* connection for the SELECT and, later, another for the two writes, which *)
(* sqlite3 runs in one transaction committed when the with block is left.  *)
(* Other callers can act between the read, the reading of the clock and    *)
(* the commit; nothing can act between the two writes.                     *)
(***************************************************************************)
\* A caller that is not inside finalize_release.
Idle == [pc |-> "idle"]

\* The first connection: the SELECT, the test of the rows, changes, highlights.
finalize_read(c, project, version) ==
  LET rows == SelectEntries(change_entries, project, version) IN
  /\ inflight[c] = Idle
  /\ IF rows = <<>>
       THEN /\ last' = [op |-> "finalize_release", ok |-> FALSE, error |-> "ValueError",
                        project |-> project, version |-> version]
            /\ UNCHANGED inflight
       ELSE LET changes == [i \in DOMAIN rows |-> from_row(rows[i])]
                highlights == Highlights(changes)
            IN  /\ inflight' = [inflight EXCEPT ![c] =
                                  [pc |-> "read", project |-> project, version |-> version,
                                   changes |-> changes, highlights |-> highlights]]
                /\ UNCHANGED last
  /\ UNCHANGED <<change_entries, releases, clock, uuids>>

\* release_date = datetime.utcnow().isoformat(); release_id = str(uuid4())
finalize_stamp(c) ==
  LET f == inflight[c] IN
  /\ f.pc = "read"
  /\ clock' = utcnow(clock)
  /\ uuids' = uuid4(uuids)
  /\ inflight' = [inflight EXCEPT ![c] =
                    [pc |-> "stamped", project |-> f.project, version |-> f.version,
                     changes |-> f.changes, highlights |-> f.highlights,
                     release_date |-> utcnow(clock), release_id |-> uuid4(uuids)]]
  /\ UNCHANGED <<change_entries, releases, last>>

\* The second connection: both writes in one transaction, then the return.
finalize_commit(c) ==
  LET f == inflight[c] IN
  /\ f.pc = "stamped"
  /\ releases' = InsertOrReplaceRelease(releases,
                   [id |-> f.release_id, project |-> f.project, version |-> f.version,
                    release_date |-> f.release_date,
                    highlights |-> json_dumps(f.highlights)])
  /\ change_entries' = UpdateFinalized(change_entries, f.project, f.version)
  /\ last' = [op |-> "finalize_release", ok |-> TRUE,
              project |-> f.project, version |-> f.version,
              result |-> [project |-> f.project, version |-> f.version,
                          date |-> f.release_date, changes |-> f.changes,
                          highlights |-> f.highlights]]
  /\ inflight' = [inflight EXCEPT ![c] = Idle]
  /\ UNCHANGED <<clock, uuids>>

(***************************************************************************)
(* generate_json and generate_md                                           *)
(***************************************************************************)
\* ORDER BY version DESC in place of ORDER BY release_date DESC: the rows with
\* the label 1.9.0 before the others.
OrderByReleaseDateDesc_ByVersion(rows) ==
  SelectSeq(rows, LAMBDA r : r.version = <<"1", ".", "9", ".", "0">>)
    \o SelectSeq(rows, LAMBDA r : r.version # <<"1", ".", "9", ".", "0">>)

\* Rows of one table put in order by insertion: Before(a, b) is the ORDER BY.
RECURSIVE OrderByReleaseDateDesc(_)
OrderByReleaseDateDesc(rows) ==
  IF rows = <<>> THEN <<>>
  ELSE LET rest == OrderByReleaseDateDesc(Tail(rows))
           r == Head(rows)
           k == Cardinality({i \in DOMAIN rest : rest[i].release_date > r.release_date})
       IN  Take(rest, k) \o <<r>> \o Drop(rest, k)

\* The query without its project condition.
SelectReleases_AnyProject(tbl, project) == OrderByReleaseDateDesc(tbl)

\* SELECT ... FROM releases WHERE project=? ORDER BY release_date DESC
SelectReleases(tbl, project) ==
  OrderByReleaseDateDesc(SelectSeq(tbl, LAMBDA r : r.project = project))

\* LIMIT ? : a negative limit is no limit.
Limit(rows, n) == IF n < 0 THEN rows ELSE Take(rows, n)

\* The collation of the type column (ORDER BY type compares the text).
TypeCollation ==
  [t \in {TYPE_FEAT, TYPE_FIX, TYPE_BREAKING, TYPE_PERF, TYPE_REFACTOR, TYPE_DOCS, TYPE_CHORE} |->
     CASE t = TYPE_BREAKING -> 1
       [] t = TYPE_CHORE -> 2
       [] t = TYPE_DOCS -> 3
       [] t = TYPE_FEAT -> 4
       [] t = TYPE_FIX -> 5
       [] t = TYPE_PERF -> 6
       [] OTHER -> 7]

TypeDateBefore(a, b) ==
  \/ TypeCollation[a.type] < TypeCollation[b.type]
  \/ (a.type = b.type /\ a.date < b.date)

RECURSIVE OrderByTypeDate(_)
OrderByTypeDate(rows) ==
  IF rows = <<>> THEN <<>>
  ELSE LET rest == OrderByTypeDate(Tail(rows))
           r == Head(rows)
           k == Cardinality({i \in DOMAIN rest : TypeDateBefore(rest[i], r)})
       IN  Take(rest, k) \o <<r>> \o Drop(rest, k)

\* The changes of one release in generate_json: the entries of the key, read now.
JsonChanges(tbl, project, version) ==
  LET entries == SelectEntries(tbl, project, version)
  IN  [i \in DOMAIN entries |->
         [type |-> entries[i].type, summary |-> entries[i].summary,
          details |-> entries[i].details, pr_number |-> entries[i].pr_number,
          author |-> entries[i].author]]

JsonDocument(tblEntries, tblReleases, project) ==
  LET rels == SelectReleases(tblReleases, project)
  IN  [project |-> project,
       releases |-> [i \in DOMAIN rels |->
                       [version |-> rels[i].version,
                        date |-> rels[i].release_date,
                        highlights |-> json_loads(rels[i].highlights),
                        changes |-> JsonChanges(tblEntries, project, rels[i].version)]]]

generate_json(project) ==
  /\ last' = [op |-> "generate_json", ok |-> TRUE, project |-> project,
              result |-> JsonDocument(change_entries, releases, project)]
  /\ UNCHANGED <<change_entries, releases, clock, uuids>>

\* release_date[:10]: the day of a timestamp.
TicksPerDay == 2

DatePrefix(t) == t \div TicksPerDay

\* One "- summary (#pr) by @author" line with its optional "> details" line.
MdLine(e) ==
  [summary |-> e.summary,
   pr_str |-> IF e.pr_number # None /\ e.pr_number # 0 THEN e.pr_number ELSE "",
   author_str |-> e.author,
   details |-> e.details]

\* The sections in the order in which the query returns the types.
MdSections_QueryOrder(tbl, project, version) ==
  LET entries == OrderByTypeDate(SelectEntries(tbl, project, version))
      by_type(t) == SelectSeq(entries, LAMBDA row : row.type = t)
      shown == SelectSeq(<<TYPE_BREAKING, TYPE_CHORE, TYPE_DOCS, TYPE_FEAT, TYPE_FIX,
                           TYPE_PERF, TYPE_REFACTOR>>,
                         LAMBDA t : by_type(t) # <<>>)
  IN  [i \in DOMAIN shown |->
         [type |-> shown[i],
          section |-> TYPE_SECTION[shown[i]],
          lines |-> [j \in DOMAIN by_type(shown[i]) |-> MdLine(by_type(shown[i])[j])]]]

\* The "### section" blocks of one release, in the order of CHANGE_TYPES.
MdSections(tbl, project, version) ==
  LET entries == OrderByTypeDate(SelectEntries(tbl, project, version))
      by_type(t) == SelectSeq(entries, LAMBDA row : row.type = t)
      shown == SelectSeq(CHANGE_TYPES, LAMBDA t : by_type(t) # <<>>)
  IN  [i \in DOMAIN shown |->
         [type |-> shown[i],
          section |-> TYPE_SECTION[shown[i]],
          lines |-> [j \in DOMAIN by_type(shown[i]) |-> MdLine(by_type(shown[i])[j])]]]

MdDocument(tblEntries, tblReleases, project, max_versions) ==
  LET rels == Limit(SelectReleases(tblReleases, project), max_versions)
  IN  IF rels = <<>>
        THEN [placeholder |-> TRUE, project |-> project, releases |-> <<>>]
        ELSE [placeholder |-> FALSE, project |-> project,
              releases |-> [i \in DOMAIN rels |->
                              [version |-> rels[i].version,
                               date |-> DatePrefix(rels[i].release_date),
                               highlights |-> json_loads(rels[i].highlights),
                               sections |-> MdSections(tblEntries, project, rels[i].version)]]]

generate_md(project, max_versions) ==
  /\ last' = [op |-> "generate_md", ok |-> TRUE, project |-> project,
              max_versions |-> max_versions,
              result |-> MdDocument(change_entries, releases, project, max_versions)]
  /\ UNCHANGED <<change_entries, releases, clock, uuids>>

(***************************************************************************)
(* semantic_bump                                                           *)
(***************************************************************************)
NL == "\n"

DigitValue ==
  [c \in {"0", "1", "2", "3", "4", "5", "6", "7", "8", "9"} |->
     CASE c = "0" -> 0 [] c = "1" -> 1 [] c = "2" -> 2 [] c = "3" -> 3 [] c = "4" -> 4
       [] c = "5" -> 5 [] c = "6" -> 6 [] c = "7" -> 7 [] c = "8" -> 8 [] OTHER -> 9]

DigitChar == <<"1", "2", "3", "4", "5", "6", "7", "8", "9">>

IsDigit(c) == c \in DOMAIN DigitValue

\* The length of the match of a greedy \d+ at the start of s (0: no match).
RECURSIVE DigitRun(_)
DigitRun(s) ==
  IF s = <<>> \/ ~IsDigit(Head(s)) THEN 0 ELSE 1 + DigitRun(Tail(s))

NoMatch == "NoMatch"

\* re.fullmatch(r"(\d+)\.(\d+)\.(\d+)(.*)", s): the four groups, or NoMatch.
\* "." does not match a line break, so (.*) cannot reach the end across one.
fullmatch(s) ==
  LET n1 == DigitRun(s)
      r1 == Drop(s, n1)
  IN  IF n1 = 0 \/ r1 = <<>> \/ Head(r1) # "." THEN NoMatch
      ELSE LET s2 == Tail(r1)
               n2 == DigitRun(s2)
               r2 == Drop(s2, n2)
           IN  IF n2 = 0 \/ r2 = <<>> \/ Head(r2) # "." THEN NoMatch
               ELSE LET s3 == Tail(r2)
                        n3 == DigitRun(s3)
                        r3 == Drop(s3, n3)
                    IN  IF n3 = 0 \/ InList(NL, r3) THEN NoMatch
                        ELSE <<Take(s, n1), Take(s2, n2), Take(s3, n3), r3>>

\* int(digits)
RECURSIVE int(_)
int(ds) ==
  IF ds = <<>> THEN 0
  ELSE int(SubSeq(ds, 1, Len(ds) - 1)) * 10 + DigitValue[ds[Len(ds)]]

\* The decimal numeral an f-string writes for a non-negative integer.
RECURSIVE str(_)
str(n) ==
  LET d == IF n % 10 = 0 THEN "0" ELSE DigitChar[n % 10]
  IN  IF n < 10 THEN <<d>> ELSE str(n \div 10) \o <<d>>

\* The query without its is_finalized=0 condition.
SelectPendingTypes_AllRows(tbl, project) ==
  LET rows == SelectSeq(tbl, LAMBDA r : r.project = project)
  IN  [i \in DOMAIN rows |-> rows[i].type]

\* SELECT type FROM change_entries WHERE project=? AND is_finalized=0
SelectPendingTypes(tbl, project) ==
  LET rows == SelectSeq(tbl, LAMBDA r : r.project = project /\ r.is_finalized = FALSE)
  IN  [i \in DOMAIN rows |-> rows[i].type]

\* BumpResult with the feat test before the breaking test.
BumpResult_FeatFirst(major, minor, patch, suffix, rows) ==
  IF rows = <<>>
    THEN str(major) \o <<".">> \o str(minor) \o <<".">> \o str(patch + 1) \o suffix
    ELSE LET types == Range(rows)
         IN  IF TYPE_FEAT \in types
               THEN str(major) \o <<".">> \o str(minor + 1) \o <<".", "0">>
               ELSE IF TYPE_BREAKING \in types
                 THEN str(major + 1) \o <<".", "0", ".", "0">>
                 ELSE str(major) \o <<".">> \o str(minor) \o <<".">> \o str(patch + 1) \o suffix

\* BumpResult with the suffix kept by the minor bump too.
BumpResult_SuffixOnMinor(major, minor, patch, suffix, rows) ==
  IF rows = <<>>
    THEN str(major) \o <<".">> \o str(minor) \o <<".">> \o str(patch + 1) \o suffix
    ELSE LET types == Range(rows)
         IN  IF TYPE_BREAKING \in types
               THEN str(major + 1) \o <<".", "0", ".", "0">>
               ELSE IF TYPE_FEAT \in types
                 THEN str(major) \o <<".">> \o str(minor + 1) \o <<".", "0">> \o suffix
                 ELSE str(major) \o <<".">> \o str(minor) \o <<".">> \o str(patch + 1) \o suffix

\* BumpResult that keeps the components to the right of the one it increments.
BumpResult_NoReset(major, minor, patch, suffix, rows) ==
  IF rows = <<>>
    THEN str(major) \o <<".">> \o str(minor) \o <<".">> \o str(patch + 1) \o suffix
    ELSE LET types == Range(rows)
         IN  IF TYPE_BREAKING \in types
               THEN str(major + 1) \o <<".">> \o str(minor) \o <<".">> \o str(patch)
               ELSE IF TYPE_FEAT \in types
                 THEN str(major) \o <<".">> \o str(minor + 1) \o <<".">> \o str(patch)
                 ELSE str(major) \o <<".">> \o str(minor) \o <<".">> \o str(patch + 1) \o suffix

\* The version semantic_bump returns once the version is parsed and the rows read.
BumpResult(major, minor, patch, suffix, rows) ==
  IF rows = <<>>
    THEN str(major) \o <<".">> \o str(minor) \o <<".">> \o str(patch + 1) \o suffix
    ELSE LET types == Range(rows)
         IN  IF TYPE_BREAKING \in types
               THEN str(major + 1) \o <<".", "0", ".", "0">>
               ELSE IF TYPE_FEAT \in types
                 THEN str(major) \o <<".">> \o str(minor + 1) \o <<".", "0">>
                 ELSE str(major) \o <<".">> \o str(minor) \o <<".">> \o str(patch + 1) \o suffix

\* A semantic_bump that marks what it has counted as released.
semantic_bump_Consuming(project, current_version) ==
  LET match == fullmatch(current_version) IN
  /\ IF match = NoMatch
       THEN last' = [op |-> "semantic_bump", ok |-> FALSE, error |-> "ValueError",
                     project |-> project, current_version |-> current_version]
       ELSE last' = [op |-> "semantic_bump", ok |-> TRUE,
                     project |-> project, current_version |-> current_version,
                     result |-> BumpResult(int(match[1]), int(match[2]), int(match[3]),
                                           match[4],
                                           SelectPendingTypes(change_entries, project))]
  /\ change_entries' = [i \in DOMAIN change_entries |->
                          IF change_entries[i].project = project
                            THEN [change_entries[i] EXCEPT !.is_finalized = TRUE]
                            ELSE change_entries[i]]
  /\ UNCHANGED <<releases, clock, uuids>>

semantic_bump(project, current_version) ==
  LET match == fullmatch(current_version) IN
  /\ IF match = NoMatch
       THEN last' = [op |-> "semantic_bump", ok |-> FALSE, error |-> "ValueError",
                     project |-> project, current_version |-> current_version]
       ELSE last' = [op |-> "semantic_bump", ok |-> TRUE,
                     project |-> project, current_version |-> current_version,
                     result |-> BumpResult(int(match[1]), int(match[2]), int(match[3]),
                                           match[4],
                                           SelectPendingTypes(change_entries, project))]
  /\ UNCHANGED <<change_entries, releases, clock, uuids>>

(***************************************************************************)
(* search_changes, list_projects and list_versions                         *)
(***************************************************************************)
UpperCase ==
  <<"A", "B", "C", "D", "E", "F", "G", "H", "I", "J", "K", "L", "M",
    "N", "O", "P", "Q", "R", "S", "T", "U", "V", "W", "X", "Y", "Z">>

LowerCase ==
  <<"a", "b", "c", "d", "e", "f", "g", "h", "i", "j", "k", "l", "m",
    "n", "o", "p", "q", "r", "s", "t", "u", "v", "w", "x", "y", "z">>

\* LIKE compares ASCII letters without regard to case.
Fold(ch) ==
  IF \E i \in DOMAIN UpperCase : UpperCase[i] = ch
    THEN LowerCase[CHOOSE i \in DOMAIN UpperCase : UpperCase[i] = ch]
    ELSE ch

\* text LIKE pattern: "%" stands for any run of characters, "_" for any one.
RECURSIVE Like(_, _)
Like(text, pattern) ==
  IF pattern = <<>> THEN text = <<>>
  ELSE IF Head(pattern) = "%"
    THEN Like(text, Tail(pattern)) \/ (text # <<>> /\ Like(Tail(text), pattern))
    ELSE /\ text # <<>>
         /\ Head(pattern) = "_" \/ Fold(Head(pattern)) = Fold(Head(text))
         /\ Like(Tail(text), Tail(pattern))

\* ORDER BY date DESC
RECURSIVE OrderByDateDesc(_)
OrderByDateDesc(rows) ==
  IF rows = <<>> THEN <<>>
  ELSE LET rest == OrderByDateDesc(Tail(rows))
           r == Head(rows)
           k == Cardinality({i \in DOMAIN rest : rest[i].date > r.date})
       IN  Take(rest, k) \o <<r>> \o Drop(rest, k)

\* The rows search_changes returns: "if project" is false for None and for "".
SearchRows(tbl, query, project) ==
  LET pattern == <<"%">> \o query \o <<"%">>
      hit(r) == Like(r.summary, pattern) \/ Like(r.details, pattern)
      rows == IF project # None /\ project # ""
                THEN SelectSeq(tbl, LAMBDA r : r.project = project /\ hit(r))
                ELSE SelectSeq(tbl, hit)
      sorted == OrderByDateDesc(rows)
  IN  [i \in DOMAIN sorted |-> from_row(sorted[i])]

search_changes(query, project) ==
  /\ last' = [op |-> "search_changes", ok |-> TRUE, query |-> query, project |-> project,
              result |-> SearchRows(change_entries, query, project)]
  /\ UNCHANGED <<change_entries, releases, clock, uuids>>

\* SELECT DISTINCT: the rows at the positions first, in the order of the table.
RowsAt(rows, first) ==
  LET nth(k) == CHOOSE i \in first : Cardinality({j \in first : j <= i}) = k
  IN  [k \in 1..Cardinality(first) |-> rows[nth(k)]]

\* The first row of each distinct project.
DistinctProject(rows) ==
  RowsAt(rows, {i \in DOMAIN rows : \A j \in 1..(i - 1) : rows[j].project # rows[i].project})

\* The first row of each distinct pair of version and is_finalized.
DistinctVersionFlag(rows) ==
  RowsAt(rows, {i \in DOMAIN rows :
                  \A j \in 1..(i - 1) :
                    <<rows[j].version, rows[j].is_finalized>>
                      # <<rows[i].version, rows[i].is_finalized>>})

\* The collation of the project names of the model.
ProjectBefore(a, b) == a = "p1" /\ b = "p2"

\* ORDER BY project compares the text of the names.
RECURSIVE OrderByProject(_)
OrderByProject(rows) ==
  IF rows = <<>> THEN <<>>
  ELSE LET rest == OrderByProject(Tail(rows))
           r == Head(rows)
           k == Cardinality({i \in DOMAIN rest : ProjectBefore(rest[i].project, r.project)})
       IN  Take(rest, k) \o <<r>> \o Drop(rest, k)

\* SELECT DISTINCT project FROM change_entries ORDER BY project
ListProjects(tbl) ==
  LET rows == OrderByProject(DistinctProject(tbl))
  IN  [i \in DOMAIN rows |-> rows[i].project]

list_projects ==
  /\ last' = [op |-> "list_projects", ok |-> TRUE, result |-> ListProjects(change_entries)]
  /\ UNCHANGED <<change_entries, releases, clock, uuids>>

\* SELECT DISTINCT version, is_finalized FROM change_entries WHERE project=?
\* ORDER BY date DESC: SQLite keeps the first row it scans of each distinct pair
\* and orders the pairs by the date of that row.
ListVersions(tbl, project) ==
  LET mine == SelectSeq(tbl, LAMBDA r : r.project = project)
      rows == OrderByDateDesc(DistinctVersionFlag(mine))
  IN  [i \in DOMAIN rows |-> [version |-> rows[i].version, finalized |-> rows[i].is_finalized]]

list_versions(project) ==
  /\ last' = [op |-> "list_versions", ok |-> TRUE, project |-> project,
              result |-> ListVersions(change_entries, project)]
  /\ UNCHANGED <<change_entries, releases, clock, uuids>>

(***************************************************************************)
(* Inputs of the model.                                                    *)
(***************************************************************************)
Projects == {"p1", "p2"}

V100 == <<"1", ".", "0", ".", "0">>
V190 == <<"1", ".", "9", ".", "0">>

Versions == {V100, V190}

\* The keys entries are added under: one project under both version labels,
\* and a second project that shares one of the labels.
Keys == {<<"p1", V100>>, <<"p1", V190>>, <<"p2", V100>>}

CoreTypes == {TYPE_FEAT, TYPE_BREAKING, TYPE_FIX}

AllTypes == Range(CHANGE_TYPES)

\* The callers that may be inside finalize_release at the same time.
Callers == {"c1", "c2"}

\* What the store looks like before anything was added.
Init ==
  /\ change_entries = <<>>
  /\ releases = <<>>
  /\ clock = 0
  /\ uuids = 0
  /\ last = [op |-> "init", ok |-> TRUE]
  /\ inflight = [c \in Callers |-> Idle]

\* The bounds stop the calls that would grow the store; a call that fails or
\* only reads is always possible.
RoomToAdd(change_type, ops) ==
  InList(change_type, CHANGE_TYPES) =>
    (Len(change_entries) < MaxEntries /\ uuids < ops)

RoomToFinalize(project, version, ops) ==
  SelectEntries(change_entries, project, version) # <<>> => uuids < ops

(***************************************************************************)
(* Spec: the store under add_change and finalize_release.  Entries of the  *)
(* three core types are added under every key; the other four types of the *)
(* enum under one key; a type outside the enum is tried on every key.      *)
(***************************************************************************)
AddChange ==
  \E k \in Keys, t \in AllTypes \cup {"invalid"} :
    /\ t \in CoreTypes \cup {"invalid"} \/ k = <<"p1", V100>>
    /\ RoomToAdd(t, MaxOps)
    /\ add_change(k[1], k[2], t, "s1", "", None, "")
    /\ UNCHANGED inflight

FinalizeRelease ==
  \E p \in Projects, v \in Versions :
    /\ RoomToFinalize(p, v, MaxOps)
    /\ finalize_release(p, v)
    /\ UNCHANGED inflight

Next ==
  \/ AddChange
  \/ FinalizeRelease

Spec == Init /\ [][Next]_vars

(***************************************************************************)
(* SpecRender: the store with the two renderings.  The bound on the calls  *)
(* lets a project get to two releases and to a second finalize of one.     *)
(***************************************************************************)
MaxVersionsInputs == {-1, 0, 1, 2, 5}

\* A type that gives a highlight and one that gives none.
RenderTypes == {TYPE_FEAT, TYPE_FIX}

AddChangeRender ==
  \E k \in Keys, t \in RenderTypes :
    /\ RoomToAdd(t, MaxRenderOps)
    /\ add_change(k[1], k[2], t, "s1", "", None, "")
    /\ UNCHANGED inflight

FinalizeReleaseRender ==
  \E p \in Projects, v \in Versions :
    /\ RoomToFinalize(p, v, MaxRenderOps)
    /\ finalize_release(p, v)
    /\ UNCHANGED inflight

GenerateJson == \E p \in Projects : generate_json(p) /\ UNCHANGED inflight

GenerateMd ==
  \E p \in Projects, k \in MaxVersionsInputs : generate_md(p, k) /\ UNCHANGED inflight

NextRender ==
  \/ AddChangeRender
  \/ FinalizeReleaseRender
  \/ GenerateJson
  \/ GenerateMd

SpecRender == Init /\ [][NextRender]_vars

(***************************************************************************)
(* SpecRead: the store with all six operations that only read.  Summaries  *)
(* and details are sequences of characters here, since search_changes      *)
(* matches inside them.                                                    *)
(***************************************************************************)
\* add_change(project, version, type, summary, details)
ReadCalls ==
  { <<TYPE_FEAT, <<"A", "d", "d">>, <<"x", "_", "y">>>>,
    <<TYPE_FIX, <<"F", "i", "x">>, <<>>>> }

\* Search terms: a plain one in the other case, and the two wildcards of LIKE.
Queries == {<<"f", "I">>, <<"%">>, <<"_", "d", "d">>}

SearchProjects == {None, "", "p1"}

ReadVersions == {V100, <<"1", ".", "2">>}

AddChangeRead ==
  \E k \in Keys, call \in ReadCalls :
    /\ RoomToAdd(call[1], MaxOps)
    /\ add_change(k[1], k[2], call[1], call[2], call[3], None, "")
    /\ UNCHANGED inflight

SemanticBumpRead ==
  \E p \in Projects, c \in ReadVersions : semantic_bump(p, c) /\ UNCHANGED inflight

GenerateMdRead == \E p \in Projects : generate_md(p, 5) /\ UNCHANGED inflight

SearchChanges ==
  \E q \in Queries, p \in SearchProjects : search_changes(q, p) /\ UNCHANGED inflight

ListProjectsRead == list_projects /\ UNCHANGED inflight

ListVersionsRead == \E p \in Projects : list_versions(p) /\ UNCHANGED inflight

NextRead ==
  \/ AddChangeRead
  \/ FinalizeRelease
  \/ SemanticBumpRead
  \/ GenerateMdRead
  \/ GenerateJson
  \/ SearchChanges
  \/ ListProjectsRead
  \/ ListVersionsRead

SpecRead == Init /\ [][NextRead]_vars

(***************************************************************************)
(* SpecSections: generate_md on a release whose key holds entries of any   *)
(* of the seven types, beside an entry under the other version label.      *)
(***************************************************************************)
\* add_change("p1", version, type, "s1")
SectionCalls == {<<V100, t>> : t \in AllTypes} \cup {<<V190, TYPE_PERF>>}

AddChangeSections ==
  \E call \in SectionCalls :
    /\ Len(change_entries) < MaxSectionEntries
    /\ add_change("p1", call[1], call[2], "s1", "", None, "")
    /\ UNCHANGED inflight

\* Each version is finalized once.
FinalizeSections ==
  \E v \in Versions :
    /\ \A r \in DOMAIN releases : releases[r].version # v
    /\ finalize_release("p1", v)
    /\ UNCHANGED inflight

GenerateMdSections == generate_md("p1", 5) /\ UNCHANGED inflight

NextSections ==
  \/ AddChangeSections
  \/ FinalizeSections
  \/ GenerateMdSections

SpecSections == Init /\ [][NextSections]_vars

(***************************************************************************)
(* SpecBump: the store with semantic_bump on version strings.              *)
(***************************************************************************)
\* Well-formed versions by their parts: digits, digits, digits, suffix.  They
\* include the two version labels of the entries, a leading zero, and an
\* increment that carries in each place.
MajorInputs == {<<"1">>, <<"0", "9">>}
MinorInputs == {<<"0">>, <<"9">>}
TailInputs == {<<<<"0">>, <<>>>>, <<<<"1", "9">>, <<"-", "r", "c", "1">>>>}

WellFormed ==
  {[major |-> a, minor |-> b, patch |-> t[1], suffix |-> t[2]] :
     a \in MajorInputs, b \in MinorInputs, t \in TailInputs}

VersionString(w) == w.major \o <<".">> \o w.minor \o <<".">> \o w.patch \o w.suffix

Malformed ==
  { <<"n", "o", "t", "-", "s", "e", "m", "v", "e", "r">>,
    <<"1", ".", "2">>,
    <<"1", ".", "2", ".", "3", NL>> }

CurrentVersions == {VersionString(w) : w \in WellFormed} \cup Malformed

AddChangeBump ==
  \E k \in Keys, t \in CoreTypes :
    /\ RoomToAdd(t, MaxBumpOps)
    /\ add_change(k[1], k[2], t, "s1", "", None, "")
    /\ UNCHANGED inflight

FinalizeReleaseBump ==
  \E p \in Projects, v \in Versions :
    /\ RoomToFinalize(p, v, MaxBumpOps)
    /\ finalize_release(p, v)
    /\ UNCHANGED inflight

SemanticBump ==
  \E p \in Projects, c \in CurrentVersions : semantic_bump(p, c) /\ UNCHANGED inflight

NextBump ==
  \/ AddChangeBump
  \/ FinalizeReleaseBump
  \/ SemanticBump

SpecBump == Init /\ [][NextBump]_vars

(***************************************************************************)
(* SpecConc: add_change and finalize_release by callers that interleave.   *)
(* add_change has one write, its INSERT, and takes effect there.           *)
(***************************************************************************)
ConcTypes == {TYPE_FEAT, TYPE_FIX}

\* The identifiers that the calls in flight have still to draw.
Reserved == Cardinality({c \in Callers : inflight[c].pc = "read"})

AddChangeConc ==
  \E k \in Keys, t \in ConcTypes :
    /\ Len(change_entries) < MaxEntries
    /\ uuids + Reserved < MaxOps
    /\ add_change(k[1], k[2], t, "s1", "", None, "")
    /\ UNCHANGED inflight

FinalizeRead ==
  \E c \in Callers, p \in Projects, v \in Versions :
    /\ SelectEntries(change_entries, p, v) # <<>> => uuids + Reserved < MaxOps
    /\ finalize_read(c, p, v)

FinalizeStamp == \E c \in Callers : finalize_stamp(c)

FinalizeCommit == \E c \in Callers : finalize_commit(c)

NextConc ==
  \/ AddChangeConc
  \/ FinalizeRead
  \/ FinalizeStamp
  \/ FinalizeCommit

SpecConc == Init /\ [][NextConc]_vars

(***************************************************************************)
(* SpecBulk: finalize_release on a key that holds up to MaxRows entries,   *)
(* the store being what that many add_change calls leave.                  *)
(***************************************************************************)
\* The calls that filled the key: add_change("p1", "1.0.0", type, summary).
BulkCalls ==
  {<<TYPE_FEAT, "s1">>, <<TYPE_FEAT, "s2">>, <<TYPE_BREAKING, "s1">>, <<TYPE_FIX, "s2">>}

\* The row the i-th call of a fresh store leaves.
BulkRow(i, call) ==
  [id |-> i, project |-> "p1", version |-> V100, type |-> call[1], summary |-> call[2],
   details |-> "", pr_number |-> None, author |-> "", date |-> i,
   is_finalized |-> FALSE]

InitBulk ==
  \E n \in 0..MaxRows :
    \E calls \in [1..n -> BulkCalls] :
      /\ change_entries = [i \in 1..n |-> BulkRow(i, calls[i])]
      /\ releases = <<>>
      /\ clock = n
      /\ uuids = n
      /\ last = [op |-> "init", ok |-> TRUE]
      /\ inflight = [c \in Callers |-> Idle]

FinalizeBulk ==
  \E v \in Versions :
    /\ releases = <<>>
    /\ finalize_release("p1", v)
    /\ UNCHANGED inflight

NextBulk == FinalizeBulk

SpecBulk == InitBulk /\ [][NextBulk]_vars

(***************************************************************************)
(* Shared vocabulary of the claims.                                        *)
(***************************************************************************)
\* The positions in a change_entries table of the entries of one (project, version).
KeyRowsOf(tbl, project, version) ==
  {i \in DOMAIN tbl : tbl[i].project = project /\ tbl[i].version = version}

KeyRows(project, version) == KeyRowsOf(change_entries, project, version)

\* The positions in a releases table of the rows of one (project, version).
ReleaseRowsOf(tbl, project, version) ==
  {i \in DOMAIN tbl : tbl[i].project = project /\ tbl[i].version = version}

ReleaseRows(project, version) == ReleaseRowsOf(releases, project, version)

\* The enum of the change types, as the specification lists it.
EnumTypes == {"feat", "fix", "breaking", "perf", "refactor", "docs", "chore"}

FinalizeDone == last.op = "finalize_release" /\ last.ok

(***************************************************************************)
(* C1                                                                      *)
(***************************************************************************)
\* The positions of the entries of the finalized key that are feat or breaking.
C1_Featured ==
  {i \in KeyRows(last.project, last.version) :
     change_entries[i].type \in {"feat", "breaking"}}

\* The k-th of them in stored order.
C1_Nth(k) ==
  CHOOSE i \in C1_Featured : Cardinality({j \in C1_Featured : j <= i}) = k

\* C1: after a successful finalize_release(project, version) the highlights it
\* returns are the summaries of the feat/breaking entries of that key, in stored
\* order, cut to the first 5; they are never more than 5, hold no summary taken
\* from an entry of another type, and are the list stored in the release row.
C1_HighlightsAreFirstFiveFeatured ==
  FinalizeDone =>
    LET hl == last.result.highlights IN
    /\ Len(hl) <= 5
    /\ Len(hl) = IF Cardinality(C1_Featured) < 5 THEN Cardinality(C1_Featured) ELSE 5
    /\ \A k \in 1..Len(hl) : hl[k] = change_entries[C1_Nth(k)].summary
    /\ \A i \in ReleaseRows(last.project, last.version) :
         json_loads(releases[i].highlights) = hl
    /\ ReleaseRows(last.project, last.version) # {}

\* A finalize of a key with more than 5 feat/breaking entries, where an entry of
\* another type stands before the fifth of them and a feat entry is cut off.
C1_Witness ==
  /\ FinalizeDone
  /\ Cardinality(C1_Featured) > 5
  /\ \E i \in KeyRows(last.project, last.version) :
       /\ change_entries[i].type = "fix"
       /\ i < C1_Nth(5)
  /\ change_entries[C1_Nth(6)].summary # change_entries[C1_Nth(5)].summary

(***************************************************************************)
(* C3                                                                      *)
(***************************************************************************)
\* C3: the Release a successful finalize_release(project, version) returns holds
\* every entry stored for (project, version) exactly once, matched by id, and no
\* entry of another project or version.
C3_SnapshotIsTheKey ==
  FinalizeDone =>
    LET ch == last.result.changes IN
    /\ \A i \in KeyRows(last.project, last.version) :
         Cardinality({k \in DOMAIN ch : ch[k].id = change_entries[i].id}) = 1
    /\ \A k \in DOMAIN ch :
         /\ ch[k].project = last.project
         /\ ch[k].version = last.version
         /\ \E i \in KeyRows(last.project, last.version) : change_entries[i].id = ch[k].id

\* A finalize whose project also has an entry under the other version label.
C3_Witness ==
  /\ FinalizeDone
  /\ Len(last.result.changes) = 1
  /\ \E i \in DOMAIN change_entries :
       /\ change_entries[i].project = last.project
       /\ change_entries[i].version # last.version

(***************************************************************************)
(* C4                                                                      *)
(***************************************************************************)
\* The positions of the entries of (project, version) that existed when the
\* stored release of that key was written: those created before its timestamp.
C4_Frozen(project, version) ==
  {i \in KeyRows(project, version) :
     \E r \in ReleaseRows(project, version) :
       change_entries[i].date < releases[r].release_date}

\* C4: what generate_json and generate_md report under release (project, version)
\* are the entries that existed for that key at its most recent finalize_release:
\* an entry added to the key afterwards is not among them until the key is
\* finalized again.
C4_RenderedReleaseIsFrozen ==
  /\ last.op = "generate_json" =>
       \A k \in DOMAIN last.result.releases :
         LET rel == last.result.releases[k]
             frozen == SelectSeq(change_entries,
                         LAMBDA e : \E i \in C4_Frozen(last.project, rel.version) :
                                      change_entries[i].id = e.id)
         IN  rel.changes = [i \in DOMAIN frozen |->
                              [type |-> frozen[i].type, summary |-> frozen[i].summary,
                               details |-> frozen[i].details,
                               pr_number |-> frozen[i].pr_number,
                               author |-> frozen[i].author]]
  /\ last.op = "generate_md" =>
       \A k \in DOMAIN last.result.releases :
         LET rel == last.result.releases[k]
             frozen == C4_Frozen(last.project, rel.version)
         IN  \A t \in EnumTypes :
               LET shown == {n \in DOMAIN rel.sections : rel.sections[n].type = t}
                   count == Cardinality({i \in frozen : change_entries[i].type = t})
               IN  IF count = 0 THEN shown = {}
                   ELSE \E n \in shown : Len(rel.sections[n].lines) = count

(***************************************************************************)
(* C5                                                                      *)
(***************************************************************************)
\* C5: a finalize_release(project, version) called while no entry exists for
\* (project, version) fails, and the step leaves both tables as they were: no
\* release row is created or replaced and no finalized flag changes, whatever
\* entries other keys hold.
C5_Step ==
  (last'.op = "finalize_release" /\ KeyRows(last'.project, last'.version) = {}) =>
    /\ ~last'.ok
    /\ change_entries' = change_entries
    /\ releases' = releases

C5_FinalizeOfEmptyKeyFails == [][C5_Step]_vars

\* A failed finalize of a key whose project has entries under the other version
\* label and whose version label has entries under the other project.
C5_Witness ==
  /\ last.op = "finalize_release"
  /\ ~last.ok
  /\ KeyRows(last.project, last.version) = {}
  /\ \E i \in DOMAIN change_entries :
       change_entries[i].project = last.project /\ change_entries[i].version # last.version
  /\ \E i \in DOMAIN change_entries :
       change_entries[i].project # last.project /\ change_entries[i].version = last.version

(***************************************************************************)
(* C6                                                                      *)
(***************************************************************************)
\* C6: there is never more than one release row per (project, version); a
\* finalize_release of a key that has a release succeeds, replaces that row (the
\* table does not grow), leaves every finalized entry finalized, and the row then
\* holds the highlights and the timestamp this finalize computed: a timestamp
\* later than the replaced one and one highlight per feat/breaking entry of the
\* key (up to 5), none added from the replaced row.
C6_Step ==
  /\ \A p \in Projects, v \in Versions : Cardinality(ReleaseRowsOf(releases', p, v)) <= 1
  /\ (last'.op = "finalize_release" /\ ReleaseRows(last'.project, last'.version) # {}) =>
       LET old == ReleaseRows(last'.project, last'.version)
           new == ReleaseRowsOf(releases', last'.project, last'.version)
           featured == {i \in KeyRows(last'.project, last'.version) :
                          change_entries[i].type \in {"feat", "breaking"}}
       IN  /\ last'.ok
           /\ Len(releases') = Len(releases)
           /\ \A i \in DOMAIN change_entries :
                change_entries[i].is_finalized => change_entries'[i].is_finalized
           /\ \A i \in new :
                /\ releases'[i].release_date = last'.result.date
                /\ \A j \in old : releases'[i].release_date > releases[j].release_date
                /\ json_loads(releases'[i].highlights) = last'.result.highlights
                /\ Len(json_loads(releases'[i].highlights))
                     = IF Cardinality(featured) < 5 THEN Cardinality(featured) ELSE 5

C6_RefinalizeReplaces == [][C6_Step]_vars

\* A second finalize of a key, after a feat entry was added to it behind the
\* first: one release row, two highlights, both entries finalized.
C6_Witness ==
  /\ FinalizeDone
  /\ uuids = 4
  /\ Len(change_entries) = 2
  /\ KeyRows(last.project, last.version) = {1, 2}
  /\ change_entries[2].date = 3
  /\ change_entries[2].type = "feat"
  /\ Len(releases) = 1
  /\ Len(last.result.highlights) = 2

(***************************************************************************)
(* C7                                                                      *)
(***************************************************************************)
\* C7: an add_change with a type outside the enum fails and stores nothing: the
\* step leaves the entries and the releases as they were.
C7_Step ==
  (last'.op = "add_change" /\ last'.change_type \notin EnumTypes) =>
    /\ ~last'.ok
    /\ last'.error = "ValueError"
    /\ change_entries' = change_entries
    /\ releases' = releases

C7_InvalidTypeStoresNothing == [][C7_Step]_vars

\* A rejected add_change on a key that holds a finalized entry and a release.
C7_Witness ==
  /\ last.op = "add_change"
  /\ ~last.ok
  /\ last.change_type \notin EnumTypes
  /\ ReleaseRows(last.project, last.version) # {}
  /\ KeyRows(last.project, last.version) # {}

(***************************************************************************)
(* C8                                                                      *)
(***************************************************************************)
\* C8: an add_change with a type of the enum succeeds: it appends exactly one
\* entry, whose id no stored entry has and whose finalized flag is false, leaves
\* every other entry and every release as it was, and returns an entry with the
\* project, version, type and summary it was given.  So identical calls pile up
\* distinct entries.
C8_Step ==
  (last'.op = "add_change" /\ last'.change_type \in EnumTypes) =>
    /\ last'.ok
    /\ Len(change_entries') = Len(change_entries) + 1
    /\ \A i \in DOMAIN change_entries : change_entries'[i] = change_entries[i]
    /\ LET e == change_entries'[Len(change_entries')] IN
       /\ \A i \in DOMAIN change_entries : change_entries[i].id # e.id
       /\ e.is_finalized = FALSE
       /\ e.id = last'.result.id
       /\ <<e.project, e.version, e.type, e.summary>>
            = <<last'.project, last'.version, last'.change_type, last'.summary>>
    /\ releases' = releases
    /\ <<last'.result.project, last'.result.version, last'.result.type, last'.result.summary>>
         = <<last'.project, last'.version, last'.change_type, last'.summary>>

C8_ValidAddAppendsOneEntry == [][C8_Step]_vars

\* Two entries from identical calls, the second added after the key was
\* finalized: distinct ids, the new one not finalized, the release still there.
C8_Witness ==
  /\ last.op = "add_change"
  /\ last.ok
  /\ Len(change_entries) = 2
  /\ [change_entries[1] EXCEPT !.id = 0, !.date = 0, !.is_finalized = FALSE]
       = [change_entries[2] EXCEPT !.id = 0, !.date = 0, !.is_finalized = FALSE]
  /\ change_entries[1].id # change_entries[2].id
  /\ change_entries[1].is_finalized
  /\ ~change_entries[2].is_finalized
  /\ ReleaseRows(last.project, last.version) # {}

(***************************************************************************)
(* Vocabulary of the claims about semantic_bump.                           *)
(***************************************************************************)
BumpDone == last.op = "semantic_bump" /\ last.ok

\* The types of the entries of a project that are not finalized, whatever
\* their version.
PendingTypes(project) ==
  {change_entries[i].type :
     i \in {j \in DOMAIN change_entries :
              /\ change_entries[j].project = project
              /\ ~change_entries[j].is_finalized}}

Decimals == <<"0", "1", "2", "3", "4", "5", "6", "7", "8", "9">>

\* The number a string of decimal digits denotes.
RECURSIVE ValueOf(_)
ValueOf(ds) ==
  IF ds = <<>> THEN 0
  ELSE (CHOOSE k \in 0..9 : Decimals[k + 1] = Head(ds)) * 10 ^ (Len(ds) - 1)
       + ValueOf(Tail(ds))

\* The decimal numeral of a number, without leading zeros.
RECURSIVE Numeral(_)
Numeral(n) ==
  IF n < 10 THEN <<Decimals[n + 1]>>
  ELSE Numeral(n \div 10) \o <<Decimals[(n % 10) + 1]>>

Triple(a, b, c) == Numeral(a) \o <<".">> \o Numeral(b) \o <<".">> \o Numeral(c)

\* res is the version a.b.c, possibly followed by a suffix.
ReadsAs(res, a, b, c) ==
  LET t == Triple(a, b, c) IN
  /\ Len(res) >= Len(t)
  /\ SubSeq(res, 1, Len(t)) = t
  /\ Len(res) > Len(t) => res[Len(t) + 1] \notin Range(Decimals)

\* The well-formed input the last semantic_bump was called with, by its parts.
BumpInput == CHOOSE w \in WellFormed : VersionString(w) = last.current_version

BumpInputKnown == \E w \in WellFormed : VersionString(w) = last.current_version

Major == ValueOf(BumpInput.major)
Minor == ValueOf(BumpInput.minor)
Patch == ValueOf(BumpInput.patch)

(***************************************************************************)
(* C2                                                                      *)
(***************************************************************************)
\* C2: semantic_bump(project, MAJOR.MINOR.PATCH...) succeeds and follows the
\* precedence: a pending breaking entry of the project gives (MAJOR+1).0.0;
\* else a pending feat entry gives MAJOR.(MINOR+1).0; else, with other types
\* pending or nothing pending, MAJOR.MINOR.(PATCH+1).  Breaking wins over feat.
C2_BumpPrecedence ==
  (last.op = "semantic_bump" /\ BumpInputKnown) =>
    /\ last.ok
    /\ IF "breaking" \in PendingTypes(last.project)
         THEN ReadsAs(last.result, Major + 1, 0, 0)
         ELSE IF "feat" \in PendingTypes(last.project)
           THEN ReadsAs(last.result, Major, Minor + 1, 0)
           ELSE ReadsAs(last.result, Major, Minor, Patch + 1)

\* A bump with both a breaking and a feat entry pending, from a major version
\* written with a leading zero whose increment carries: 09.x.y gives 10.0.0.
C2_Witness ==
  /\ BumpDone
  /\ {"breaking", "feat"} \subseteq PendingTypes(last.project)
  /\ BumpInputKnown
  /\ BumpInput.major = <<"0", "9">>
  /\ last.result = <<"1", "0", ".", "0", ".", "0">>

(***************************************************************************)
(* C9                                                                      *)
(***************************************************************************)
\* C9: what semantic_bump(project, current) takes as pending is the unfinalized
\* entries of that project in all of its versions, whatever version is passed:
\* a project whose entries are all finalized (or that has none) gets the patch
\* bump even when another project has pending breaking or feat entries, and a
\* pending breaking (feat) entry under any version label gives the major (minor)
\* bump.
C9_PendingIsPerProjectUnfinalized ==
  (BumpDone /\ BumpInputKnown) =>
    LET mine == {i \in DOMAIN change_entries : change_entries[i].project = last.project}
        open == {i \in mine : ~change_entries[i].is_finalized}
    IN  /\ (\A i \in mine : change_entries[i].is_finalized)
             => ReadsAs(last.result, Major, Minor, Patch + 1)
        /\ (\E i \in open : change_entries[i].type = "breaking")
             => ReadsAs(last.result, Major + 1, 0, 0)
        /\ ((\E i \in open : change_entries[i].type = "feat")
              /\ (\A i \in open : change_entries[i].type # "breaking"))
             => ReadsAs(last.result, Major, Minor + 1, 0)
        /\ (\A i \in open : change_entries[i].type \notin {"breaking", "feat"})
             => ReadsAs(last.result, Major, Minor, Patch + 1)

\* A patch bump for a project whose breaking entry is finalized, asked with the
\* version label of that entry, while another project has a breaking entry pending.
C9_Witness ==
  /\ BumpDone
  /\ BumpInputKnown
  /\ \E i \in DOMAIN change_entries :
       /\ change_entries[i].project = last.project
       /\ change_entries[i].version = last.current_version
       /\ change_entries[i].type = "breaking"
       /\ change_entries[i].is_finalized
  /\ \A i \in DOMAIN change_entries :
       change_entries[i].project = last.project => change_entries[i].is_finalized
  /\ \E i \in DOMAIN change_entries :
       /\ change_entries[i].project # last.project
       /\ change_entries[i].type = "breaking"
       /\ ~change_entries[i].is_finalized
  /\ ReadsAs(last.result, Major, Minor, Patch + 1)

\* A major bump caused by an entry pending under another version label than the
\* one passed as current, the entry under that label being finalized.
C9_WitnessOtherVersion ==
  /\ BumpDone
  /\ BumpInputKnown
  /\ \E i, j \in DOMAIN change_entries :
       /\ change_entries[i].project = last.project
       /\ change_entries[i].version # last.current_version
       /\ change_entries[i].type = "breaking"
       /\ ~change_entries[i].is_finalized
       /\ change_entries[j].project = last.project
       /\ change_entries[j].version = last.current_version
       /\ change_entries[j].is_finalized
  /\ ReadsAs(last.result, Major + 1, 0, 0)

(***************************************************************************)
(* C10                                                                     *)
(***************************************************************************)
\* C10: the suffix after MAJOR.MINOR.PATCH is kept verbatim in the result of a
\* patch bump (no breaking or feat entry pending, nothing pending included) and
\* is dropped by a major bump and by a minor bump.
C10_SuffixOnlyOnPatchBump ==
  (BumpDone /\ BumpInputKnown) =>
    IF "breaking" \in PendingTypes(last.project)
      THEN last.result = Triple(Major + 1, 0, 0)
      ELSE IF "feat" \in PendingTypes(last.project)
        THEN last.result = Triple(Major, Minor + 1, 0)
        ELSE last.result = Triple(Major, Minor, Patch + 1) \o BumpInput.suffix

\* The three cases with a suffix in the input: kept by a patch bump over pending
\* fix entries and over an empty pending set, dropped by a minor bump.
C10_Witness ==
  /\ BumpDone
  /\ BumpInputKnown
  /\ BumpInput.suffix = <<"-", "r", "c", "1">>
  /\ PendingTypes(last.project) = {"fix"}
  /\ last.result = <<"1", ".", "9", ".", "2", "0", "-", "r", "c", "1">>

(***************************************************************************)
(* C11                                                                     *)
(***************************************************************************)
\* s begins with a numeral, a dot, a numeral, a dot and a numeral; what follows
\* the third numeral, if anything, is the suffix, and any text may stand there.
C11_StartsWithTriple(s) ==
  \E d1, d2, e \in 1..Len(s) :
    /\ 1 < d1 /\ d1 + 1 < d2 /\ d2 < e
    /\ s[d1] = "." /\ s[d2] = "."
    /\ \A i \in (1..(d1 - 1)) \cup ((d1 + 1)..(d2 - 1)) \cup ((d2 + 1)..e) :
         s[i] \in Range(Decimals)

\* C11: semantic_bump succeeds exactly for the version strings that begin with
\* MAJOR.MINOR.PATCH (three numerals separated by dots), whatever suffix follows,
\* and fails with ValueError for every other string, whatever entries are
\* pending.
C11_BumpSucceedsIffStartsWithTriple ==
  last.op = "semantic_bump" =>
    /\ last.ok <=> C11_StartsWithTriple(last.current_version)
    /\ ~last.ok => last.error = "ValueError"

(***************************************************************************)
(* Vocabulary of the claims about concurrent callers.                      *)
(***************************************************************************)
AllIdle == \A c \in Callers : inflight[c] = Idle

\* The ids of the entries in a list of ChangeEntry records.
IdsOf(changes) == {changes[k].id : k \in DOMAIN changes}

(***************************************************************************)
(* C12                                                                     *)
(***************************************************************************)
\* C12: the two writes of finalize_release take effect in one step.  After every
\* step, whatever the callers' interleaving: an entry is finalized only if its
\* (project, version) has a release row; the step in which a caller's writes
\* take effect leaves the release row it wrote in the table and every entry the
\* caller had read finalized; and afterwards the key keeps a release row and
\* the entries stay finalized.
C12_Step ==
  /\ \A i \in DOMAIN change_entries' :
       change_entries'[i].is_finalized =>
         ReleaseRowsOf(releases', change_entries'[i].project, change_entries'[i].version) # {}
  /\ \A c \in Callers :
       (inflight[c].pc = "stamped" /\ inflight'[c].pc = "idle") =>
         LET f == inflight[c] IN
         /\ \E r \in ReleaseRowsOf(releases', f.project, f.version) :
              releases'[r].id = f.release_id
         /\ \A id \in IdsOf(f.changes) :
              \E i \in DOMAIN change_entries' :
                change_entries'[i].id = id /\ change_entries'[i].is_finalized
  /\ \A p \in Projects, v \in Versions :
       ReleaseRows(p, v) # {} => ReleaseRowsOf(releases', p, v) # {}
  /\ \A i \in DOMAIN change_entries :
       change_entries[i].is_finalized =>
         (change_entries'[i].id = change_entries[i].id /\ change_entries'[i].is_finalized)

C12_WritesAreOneStep == [][C12_Step]_vars

\* A caller's writes have taken effect while another caller is between its
\* stamp and its writes for the same key: the key has its release row and all
\* of its entries are finalized.
C12_Witness ==
  /\ FinalizeDone
  /\ \E c \in Callers :
       /\ inflight[c].pc = "stamped"
       /\ inflight[c].project = last.project
       /\ inflight[c].version = last.version
  /\ ReleaseRows(last.project, last.version) # {}
  /\ \A i \in KeyRows(last.project, last.version) : change_entries[i].is_finalized
  /\ \E i \in DOMAIN change_entries : ~change_entries[i].is_finalized

(***************************************************************************)
(* C13                                                                     *)
(***************************************************************************)
\* C13: when finalize_release calls for one (project, version) overlap, each
\* reading first and writing later, the store after any of their writes holds
\* exactly one release row for the key, with the highlights and the timestamp of
\* the call that wrote last, and every entry of the key is finalized.
C13_LastWriteWins ==
  FinalizeDone =>
    /\ Cardinality(ReleaseRows(last.project, last.version)) = 1
    /\ \A r \in ReleaseRows(last.project, last.version) :
         /\ json_loads(releases[r].highlights) = last.result.highlights
         /\ releases[r].release_date = last.result.date
    /\ \A i \in KeyRows(last.project, last.version) : change_entries[i].is_finalized

\* Two overlapping calls for a key with two feat entries, both returned.  The
\* call that read before the second entry was added drew its timestamp first
\* (identifier 3) and wrote last: the release row is its row, with one
\* highlight and the earlier timestamp, and both entries are finalized.
C13_Witness ==
  /\ FinalizeDone
  /\ AllIdle
  /\ uuids = 4
  /\ Len(change_entries) = 2
  /\ KeyRows(last.project, last.version) = {1, 2}
  /\ change_entries[2].id = 2
  /\ Len(releases) = 1
  /\ releases[1].id = 3
  /\ Len(json_loads(releases[1].highlights)) = 1

(***************************************************************************)
(* C14                                                                     *)
(***************************************************************************)
ReadOps ==
  {"semantic_bump", "generate_md", "generate_json", "search_changes",
   "list_projects", "list_versions"}

\* C14: semantic_bump, generate_md, generate_json, search_changes, list_projects
\* and list_versions leave the entries, their finalized flags and the release
\* rows as they were, whether the call succeeds or fails.
C14_Step ==
  last'.op \in ReadOps =>
    /\ change_entries' = change_entries
    /\ releases' = releases

C14_ReadsChangeNothing == [][C14_Step]_vars

\* A semantic_bump that failed on a store holding a release, a finalized entry
\* and a pending entry of the project.
C14_Witness ==
  /\ last.op = "semantic_bump"
  /\ ~last.ok
  /\ \E i, j \in DOMAIN change_entries :
       /\ change_entries[i].project = last.project
       /\ change_entries[i].is_finalized
       /\ change_entries[j].project = last.project
       /\ ~change_entries[j].is_finalized
  /\ \E r \in DOMAIN releases : releases[r].project = last.project

(***************************************************************************)
(* C15                                                                     *)
(***************************************************************************)
\* The headings of the type sections, in the order the changelog shows them.
C15_Headings ==
  << <<"feat", "Features">>, <<"fix", "Bug Fixes">>, <<"breaking", "Breaking Changes">>,
     <<"perf", "Performance">>, <<"refactor", "Refactoring">>,
     <<"docs", "Documentation">>, <<"chore", "Chores">> >>

\* The headings of the sections of one rendered release, top to bottom.
C15_Shown(rel) == [n \in DOMAIN rel.sections |-> rel.sections[n].section]

\* C15: each release generate_md renders has one type section for each change
\* type with at least one entry under that (project, version), and no other, in
\* the order Features, Bug Fixes, Breaking Changes, Performance, Refactoring,
\* Documentation, Chores; each section lists as many entries as the type has.
C15_SectionsAreThePresentTypes ==
  (last.op = "generate_md" /\ ~last.result.placeholder) =>
    \A k \in DOMAIN last.result.releases :
      LET rel == last.result.releases[k]
          ofType(t) == {i \in KeyRows(last.project, rel.version) : change_entries[i].type = t}
          present == SelectSeq(C15_Headings, LAMBDA h : ofType(h[1]) # {})
      IN  /\ C15_Shown(rel) = [n \in DOMAIN present |-> present[n][2]]
          /\ \A n \in DOMAIN rel.sections :
               Len(rel.sections[n].lines) = Cardinality(ofType(present[n][1]))

\* The rendering of a release whose entries were added as chore, fix, feat:
\* Features, Bug Fixes, Chores, and neither Breaking Changes nor Performance.
C15_Witness ==
  /\ last.op = "generate_md"
  /\ Len(change_entries) = 3
  /\ change_entries[1].type = "chore"
  /\ change_entries[2].type = "fix"
  /\ change_entries[3].type = "feat"
  /\ Len(last.result.releases) = 1
  /\ C15_Shown(last.result.releases[1]) = <<"Features", "Bug Fixes", "Chores">>

(***************************************************************************)
(* C16                                                                     *)
(***************************************************************************)
\* C16: rendering a project that has no release row succeeds: generate_md
\* returns the "No releases found" placeholder and generate_json a document
\* with an empty list of releases, whether the project has no entry at all or
\* only entries that were never finalized.
C16_NoReleaseRendersEmpty ==
  (last.op \in {"generate_md", "generate_json"}
     /\ \A r \in DOMAIN releases : releases[r].project # last.project) =>
    /\ last.ok
    /\ last.result.project = last.project
    /\ last.result.releases = <<>>
    /\ last.op = "generate_md" => last.result.placeholder

\* generate_md of a project that has an unfinalized entry and no release, while
\* the other project has a release.
C16_Witness ==
  /\ last.op = "generate_md"
  /\ last.result.placeholder
  /\ \E i \in DOMAIN change_entries :
       change_entries[i].project = last.project /\ ~change_entries[i].is_finalized
  /\ \A r \in DOMAIN releases : releases[r].project # last.project
  /\ releases # <<>>

(***************************************************************************)
(* C17                                                                     *)
(***************************************************************************)
\* The release rows of a project.
C17_Rows(project) == {r \in DOMAIN releases : releases[r].project = project}

\* The row of the project with exactly n - 1 rows of a later timestamp.
C17_Nth(project, n) ==
  CHOOSE r \in C17_Rows(project) :
    Cardinality({q \in C17_Rows(project) :
                   releases[q].release_date > releases[r].release_date}) = n - 1

\* C17: for a project with N releases, generate_md with max_versions = k >= 1
\* renders min(N, k) releases, generate_json renders all N; in both the n-th
\* rendered release is the one with the n-th latest release timestamp.
C17_LatestReleasesFirst ==
  LET N == Cardinality(C17_Rows(last.project)) IN
  /\ (last.op = "generate_md" /\ last.max_versions >= 1) =>
       /\ Len(last.result.releases) = IF N < last.max_versions THEN N ELSE last.max_versions
       /\ \A n \in DOMAIN last.result.releases :
            last.result.releases[n].version = releases[C17_Nth(last.project, n)].version
  /\ last.op = "generate_json" =>
       /\ Len(last.result.releases) = N
       /\ \A n \in DOMAIN last.result.releases :
            /\ last.result.releases[n].version = releases[C17_Nth(last.project, n)].version
            /\ last.result.releases[n].date = releases[C17_Nth(last.project, n)].release_date

\* generate_md with max_versions = 1 for a project with two releases, after
\* 1.0.0 was finalized (identifier 2), 1.9.0 added and finalized (3, 4) and
\* 1.0.0 finalized again (5): the one release rendered is 1.0.0.
C17_Witness ==
  /\ last.op = "generate_md"
  /\ last.max_versions = 1
  /\ Cardinality(C17_Rows(last.project)) = 2
  /\ Len(change_entries) = 2
  /\ change_entries[1].version = V100 /\ change_entries[1].id = 1
  /\ change_entries[2].version = V190 /\ change_entries[2].id = 3
  /\ \E r, q \in C17_Rows(last.project) :
       /\ releases[r].version = V190 /\ releases[r].id = 4
       /\ releases[q].version = V100 /\ releases[q].id = 5
  /\ Len(last.result.releases) = 1
  /\ last.result.releases[1].version = V100

\* generate_json in the same store: both releases, 1.0.0 first.
C17_WitnessJson ==
  /\ last.op = "generate_json"
  /\ Len(last.result.releases) = 2
  /\ last.result.releases[1].version = V100
  /\ last.result.releases[1].date = 5
  /\ last.result.releases[2].date = 4

(***************************************************************************)
(* C18                                                                     *)
(***************************************************************************)
\* The columns of an entry that are set when it is created.
C18_Created(e) ==
  <<e.id, e.project, e.version, e.type, e.summary, e.details, e.pr_number, e.author, e.date>>

\* C18: in every step of every operation each stored entry stays stored with
\* the same id, project, version, type, summary, details, pr_number, author and
\* creation timestamp; a finalized entry stays finalized; a flag changes only in
\* a successful finalize_release of the entry's own (project, version); and an
\* entry that appears is not finalized.
C18_Step ==
  /\ Len(change_entries') >= Len(change_entries)
  /\ \A i \in DOMAIN change_entries :
       /\ C18_Created(change_entries'[i]) = C18_Created(change_entries[i])
       /\ change_entries[i].is_finalized => change_entries'[i].is_finalized
       /\ change_entries'[i].is_finalized # change_entries[i].is_finalized =>
            /\ last'.op = "finalize_release"
            /\ last'.ok
            /\ last'.project = change_entries[i].project
            /\ last'.version = change_entries[i].version
  /\ \A i \in DOMAIN change_entries' \ DOMAIN change_entries :
       change_entries'[i].is_finalized = FALSE

C18_EntryLifecycle == [][C18_Step]_vars

\* A key finalized, an entry added under another key, the first key finalized
\* again (identifiers 1 to 4), and then search_changes: the first entry is still
\* finalized, the second still is not.
C18_Witness ==
  /\ last.op = "search_changes"
  /\ uuids = 4
  /\ Len(change_entries) = 2
  /\ change_entries[1].is_finalized
  /\ ~change_entries[2].is_finalized
  /\ change_entries[2].id = 3
  /\ Len(releases) = 1
  /\ releases[1].id = 4

(***************************************************************************)
(* C19                                                                     *)
(***************************************************************************)
\* C19: when finalize_release(project, version) returns, the finalized entries
\* of (project, version) are exactly the entries of the Release it returns, and
\* the stored highlights are those of exactly these entries (their feat and
\* breaking summaries, up to 5), also when another caller's add_change for the
\* key took effect between the read and the writes.
C19_FinalizedAreTheSnapshot ==
  FinalizeDone =>
    LET flagged == {i \in KeyRows(last.project, last.version) :
                      change_entries[i].is_finalized}
        featured == {i \in flagged : change_entries[i].type \in {"feat", "breaking"}}
    IN  /\ {change_entries[i].id : i \in flagged} = IdsOf(last.result.changes)
        /\ \A r \in ReleaseRows(last.project, last.version) :
             Len(json_loads(releases[r].highlights))
               = IF Cardinality(featured) < 5 THEN Cardinality(featured) ELSE 5

(***************************************************************************)
(* C20                                                                     *)
(***************************************************************************)
\* C20: a successful finalize_release(p, v) touches its own key only.  It adds
\* and removes no entry; an entry of another project or another version is
\* left as it was, an entry of (p, v) keeps everything but its flag; the
\* release rows of the other keys are the same rows in the same order, and
\* (p, v) has one release row afterwards.
C20_Step ==
  (last'.op = "finalize_release" /\ last'.ok) =>
    LET p == last'.project
        v == last'.version
        other(r) == ~(r.project = p /\ r.version = v)
    IN  /\ Len(change_entries') = Len(change_entries)
        /\ \A i \in DOMAIN change_entries :
             IF other(change_entries[i])
               THEN change_entries'[i] = change_entries[i]
               ELSE [change_entries'[i] EXCEPT !.is_finalized = FALSE]
                      = [change_entries[i] EXCEPT !.is_finalized = FALSE]
        /\ SelectSeq(releases', other) = SelectSeq(releases, other)
        /\ Cardinality(ReleaseRowsOf(releases', p, v)) = 1

C20_FinalizeTouchesOwnKey == [][C20_Step]_vars

\* A finalize of (p, v) while the same project holds, under the other version,
\* an entry that is not finalized: that entry and its flag are as before.
C20_Witness ==
  /\ FinalizeDone
  /\ \E i \in DOMAIN change_entries :
       /\ change_entries[i].project = last.project
       /\ change_entries[i].version # last.version
       /\ ~change_entries[i].is_finalized

\* The same with the other project holding an entry under the same version.
C20_WitnessOtherProject ==
  /\ FinalizeDone
  /\ \E i \in DOMAIN change_entries :
       /\ change_entries[i].project # last.project
       /\ change_entries[i].version = last.version
       /\ ~change_entries[i].is_finalized

\* A finalize of (p, v) while another key has a release row and a finalized
\* entry.
C20_WitnessOtherRelease ==
  /\ FinalizeDone
  /\ Len(releases) = 2
  /\ releases[2].project = last.project
  /\ releases[2].version = last.version

(***************************************************************************)
(* C21                                                                     *)
(***************************************************************************)
\* The triple of numbers the result of the last semantic_bump begins with.
C21_Candidates == (0..(Major + 1)) \X (0..(Minor + 1)) \X (0..(Patch + 1))

C21_ResultTriple ==
  CHOOSE t \in C21_Candidates : ReadsAs(last.result, t[1], t[2], t[3])

\* a comes after b in the lexicographic order of triples.
C21_After(a, b) ==
  \/ a[1] > b[1]
  \/ a[1] = b[1] /\ a[2] > b[2]
  \/ a[1] = b[1] /\ a[2] = b[2] /\ a[3] > b[3]

\* C21: the version semantic_bump returns for a well-formed current version
\* MAJOR.MINOR.PATCH begins with a triple that comes after (MAJOR, MINOR, PATCH)
\* in lexicographic order: one component is greater by exactly 1, the ones to
\* its left are as they were and the ones to its right are 0.
C21_BumpMovesForward ==
  (BumpDone /\ BumpInputKnown) =>
    /\ \E t \in C21_Candidates : ReadsAs(last.result, t[1], t[2], t[3])
    /\ LET t == C21_ResultTriple IN
       /\ C21_After(t, <<Major, Minor, Patch>>)
       /\ \/ t = <<Major + 1, 0, 0>>
          \/ t = <<Major, Minor + 1, 0>>
          \/ t = <<Major, Minor, Patch + 1>>

\* A minor bump of 1.9.19-rc1: the result 1.10.0 comes after 1.9.19 as a triple
\* of numbers, though not as text, and its patch component went back to 0.
C21_Witness ==
  /\ BumpDone
  /\ BumpInputKnown
  /\ last.current_version = <<"1", ".", "9", ".", "1", "9", "-", "r", "c", "1">>
  /\ PendingTypes(last.project) = {"feat"}
  /\ C21_ResultTriple = <<1, 10, 0>>

(***************************************************************************)
(* C22                                                                     *)
(***************************************************************************)
\* C22: for a project that has a release row, generate_md(project, max_versions)
\* returns a changelog with at least one release section and not the
\* "No releases found" placeholder, whatever integer max_versions is, 0
\* included.
C22_PlaceholderOnlyWithoutReleases ==
  (last.op = "generate_md"
     /\ \E r \in DOMAIN releases : releases[r].project = last.project) =>
    /\ ~last.result.placeholder
    /\ Len(last.result.releases) >= 1

====
